---- MODULE Spec2Model ----
(***************************************************************************)
(* The human-in-the-loop image ordering workflow of                        *)
(* day2/image-agent-with-approval/agent.py and the sequential blog         *)
(* pipeline of day1/sequential-agent/agent.py.                             *)
(*                                                                         *)
(* A user query is represented by the tool calls the order agent derives   *)
(* from it: a sequence of num_images values, one per call of               *)
(* place_image_generation_order ("Generate 10 images, of a cat" is <<10>>).*)
(* The runner evaluates the calls in order and pauses the invocation when  *)
(* a call requests confirmation; a run with the same invocation_id and a   *)
(* confirmation response calls the paused tool again and goes on.          *)
(***************************************************************************)
EXTENDS Integers, Sequences, FiniteSets, TLC

\* Largest num_images a caller other than main asks for.
MaxUnits == 3
\* Most tool calls the order agent derives from one query.
MaxCalls == 2

LARGE_ORDER_THRESHOLD == 1

VARIABLES
    prog,               \* which script runs: "image" or "blog"
    todo,               \* the run_image_workflow calls the caller still makes
    pc,                 \* position inside run_image_workflow
    calls,              \* query: num_images of each tool call of the agent
    auto_approve,       \* run_image_workflow's auto_approve argument
    invocation_id,      \* the session / invocation of the current workflow
    status,             \* the runner's invocation: none, running, suspended, completed
    cursor,             \* index of the tool call the invocation is at
    tool_confirmation,  \* per tool call: tool_context.tool_confirmation
    orders,             \* orders placed (tool calls that returned "approved")
    log,                \* every event the runner produced for the invocation
    events,             \* the list run_image_workflow collects in STEP 1
    approval_info,      \* what check_for_approval returned
    runs,               \* number of run_async calls of the current workflow
    sessions,           \* session_service: per session id, its query and confirmations
    blog_cursor,        \* number of sub-agents of BlogPipeline that have run
    state,              \* BlogPipeline session state: output keys, in publication order
    blog_error          \* a sub-agent's placeholder had no value in the state

vars == <<prog, todo, pc, calls, auto_approve, invocation_id, status, cursor,
          tool_confirmation, orders, log, events, approval_info, runs,
          sessions, blog_cursor, state, blog_error>>

image_vars == <<todo, pc, calls, auto_approve, invocation_id, status, cursor,
                tool_confirmation, orders, log, events, approval_info, runs,
                sessions>>

Units == 0..MaxUnits

RECURSIVE SeqsUpTo(_, _)
SeqsUpTo(S, n) ==
    IF n = 0 THEN {<<>>}
    ELSE LET shorter == SeqsUpTo(S, n - 1)
         IN  shorter \cup {Append(s, x) : s \in shorter, x \in S}

Queries == SeqsUpTo(Units, MaxCalls)

-----------------------------------------------------------------------------
(* place_image_generation_order *)

NoConfirmation == [present |-> FALSE, confirmed |-> FALSE]
Confirmation(c) == [present |-> TRUE, confirmed |-> c]

\* The tool's return value and whether it called request_confirmation.
ToolResult(st, tag, req) == [status |-> st, order_id |-> tag, request |-> req]

place_image_generation_order_lt(num_images, tc) ==
    IF num_images < LARGE_ORDER_THRESHOLD
    THEN ToolResult("approved", "AUTO", FALSE)
    ELSE IF ~tc.present
    THEN ToolResult("pending", "", TRUE)
    ELSE IF tc.confirmed
    THEN ToolResult("approved", "HUMAN", FALSE)
    ELSE ToolResult("rejected", "", FALSE)

place_image_generation_order_eager(num_images, tc) ==
    IF num_images <= LARGE_ORDER_THRESHOLD
    THEN ToolResult("approved", "AUTO", FALSE)
    ELSE IF ~tc.present
    THEN ToolResult("approved", "HUMAN", TRUE)
    ELSE IF tc.confirmed
    THEN ToolResult("approved", "HUMAN", FALSE)
    ELSE ToolResult("rejected", "", FALSE)

place_image_generation_order_deaf(num_images, tc) ==
    IF num_images <= LARGE_ORDER_THRESHOLD
    THEN ToolResult("approved", "AUTO", FALSE)
    ELSE IF ~tc.present
    THEN ToolResult("pending", "", TRUE)
    ELSE ToolResult("approved", "HUMAN", FALSE)

place_image_generation_order(num_images, tc) ==
    IF num_images <= LARGE_ORDER_THRESHOLD
    THEN ToolResult("approved", "AUTO", FALSE)
    ELSE IF ~tc.present
    THEN ToolResult("pending", "", TRUE)
    ELSE IF tc.confirmed
    THEN ToolResult("approved", "HUMAN", FALSE)
    ELSE ToolResult("rejected", "", FALSE)

-----------------------------------------------------------------------------
(* events *)

\* One event of the runner, with the one part it carries.
Event(inv, name, id, payload, st) ==
    [invocation_id |-> inv, name |-> name, id |-> id, payload |-> payload,
     status |-> st]

ToolResponse(inv, id, n, r) ==
    Event(inv, "place_image_generation_order", id, n, r.status)
ConfirmationRequest(inv, id, n) ==
    Event(inv, "adk_request_confirmation", id, n, "")
FinalText(inv) == Event(inv, "text", 0, 0, "")

None == [found |-> FALSE, approval_id |-> 0, invocation_id |-> 0]

check_for_approval_wrong_name(evs) ==
    LET hits == {i \in 1..Len(evs) : evs[i].name = "request_confirmation"}
    IN  IF hits = {} THEN None
        ELSE LET i == CHOOSE j \in hits : \A k \in hits : j <= k
             IN  [found |-> TRUE, approval_id |-> evs[i].id,
                  invocation_id |-> evs[i].invocation_id]

check_for_approval(evs) ==
    LET hits == {i \in 1..Len(evs) : evs[i].name = "adk_request_confirmation"}
    IN  IF hits = {} THEN None
        ELSE LET i == CHOOSE j \in hits : \A k \in hits : j <= k
             IN  [found |-> TRUE, approval_id |-> evs[i].id,
                  invocation_id |-> evs[i].invocation_id]

create_approval_response_deny(info, approved) ==
    [id |-> info.approval_id, name |-> "adk_request_confirmation",
     confirmed |-> FALSE]

create_approval_response(info, approved) ==
    [id |-> info.approval_id, name |-> "adk_request_confirmation",
     confirmed |-> approved]

-----------------------------------------------------------------------------
(* main and run_image_workflow *)

WorkflowCall(q, a) == [query |-> q, auto_approve |-> a]

\* main's three demos.
Demos == << WorkflowCall(<<3>>, TRUE),
            WorkflowCall(<<10>>, TRUE),
            WorkflowCall(<<8>>, FALSE) >>

ImageInit ==
    /\ todo \in {Demos}
                \cup {<<WorkflowCall(q, a)>> : q \in Queries, a \in BOOLEAN}
                \cup {<<WorkflowCall(q, a), WorkflowCall(q, b)>> :
                          q \in Queries, a \in BOOLEAN, b \in BOOLEAN}
    /\ pc = "idle"
    /\ calls = <<>>
    /\ auto_approve = TRUE
    /\ invocation_id = 0
    /\ status = "none"
    /\ cursor = 1
    /\ tool_confirmation = <<>>
    /\ orders = <<>>
    /\ log = <<>>
    /\ events = <<>>
    /\ approval_info = None
    /\ runs = 0
    /\ sessions = <<>>

\* The session a create_session call stores for a query.
NewSession(q) ==
    [query |-> q, confirmations |-> [i \in 1..Len(q) |-> NoConfirmation]]

\* The id of the latest session is used again.
new_session_id_fixed == IF sessions = <<>> THEN 1 ELSE Len(sessions)

\* session_id = f"order_{uuid.uuid4().hex[:8]}": an id no earlier session has.
new_session_id == Len(sessions) + 1

\* run_image_workflow is entered: a fresh session, the query content, events = [].
Call ==
    /\ prog = "image"
    /\ pc = "idle"
    /\ todo # <<>>
    /\ calls' = Head(todo).query
    /\ auto_approve' = Head(todo).auto_approve
    /\ todo' = Tail(todo)
    /\ invocation_id' = new_session_id
    /\ sessions' = IF new_session_id \in DOMAIN sessions
                   THEN sessions
                   ELSE Append(sessions, NewSession(Head(todo).query))
    /\ status' = "none"
    /\ cursor' = 1
    /\ tool_confirmation' = sessions'[new_session_id].confirmations
    /\ orders' = <<>>
    /\ log' = <<>>
    /\ events' = <<>>
    /\ approval_info' = None
    /\ runs' = 0
    /\ pc' = "start"
    /\ UNCHANGED <<prog, blog_cursor, state, blog_error>>

\* STEP 1: run_async(new_message=query_content) starts the invocation.
Start ==
    /\ pc = "start"
    /\ status' = "running"
    /\ runs' = runs + 1
    /\ pc' = "step1"
    /\ UNCHANGED <<prog, todo, calls, auto_approve, invocation_id, cursor,
                   tool_confirmation, orders, log, events, approval_info,
                   sessions,
                   blog_cursor, state, blog_error>>

\* What the run's consumer does with new events: STEP 1 appends them to events,
\* PATH A only prints them.
Collected(new) == IF pc = "step1" THEN events \o new ELSE events

\* One step of the runner inside a run_async loop: the agent's next tool call, or
\* its final text when no call is left.
Advance ==
    /\ pc \in {"step1", "pathA"}
    /\ status = "running"
    /\ IF cursor > Len(calls)
       THEN /\ status' = "completed"
            /\ log' = Append(log, FinalText(invocation_id))
            /\ events' = Collected(<<FinalText(invocation_id)>>)
            /\ UNCHANGED <<cursor, orders>>
       ELSE LET n == calls[cursor]
                r == place_image_generation_order(n, tool_confirmation[cursor])
                new == IF r.request
                       THEN <<ToolResponse(invocation_id, cursor, n, r),
                              ConfirmationRequest(invocation_id, cursor, n)>>
                       ELSE <<ToolResponse(invocation_id, cursor, n, r)>>
            IN  /\ log' = log \o new
                /\ events' = Collected(new)
                /\ orders' = IF r.status = "approved"
                             THEN Append(orders, [call |-> cursor, num_images |-> n,
                                                  order_id |-> r.order_id])
                             ELSE orders
                /\ status' = IF r.request THEN "suspended" ELSE "running"
                /\ cursor' = IF r.request THEN cursor ELSE cursor + 1
    /\ UNCHANGED <<prog, todo, pc, calls, auto_approve, invocation_id,
                   tool_confirmation, approval_info, runs, sessions,
                   blog_cursor, state, blog_error>>

\* STEP 2 and the branch of STEP 3, once the first run has returned.
Check ==
    /\ pc = "step1"
    /\ status \in {"suspended", "completed"}
    /\ approval_info' = check_for_approval(events)
    /\ pc' = IF check_for_approval(events).found THEN "resume" ELSE "pathB"
    /\ UNCHANGED <<prog, todo, calls, auto_approve, invocation_id, status, cursor,
                   tool_confirmation, orders, log, events, runs, sessions,
                   blog_cursor, state, blog_error>>

\* The resumed run starts again from the first tool call.
ResumeFromStart ==
    /\ pc = "resume"
    /\ LET response == create_approval_response(approval_info, auto_approve)
       IN  /\ tool_confirmation' =
                  [tool_confirmation EXCEPT ![response.id] = Confirmation(response.confirmed)]
           /\ sessions' =
                  [sessions EXCEPT ![approval_info.invocation_id].confirmations[response.id] =
                       Confirmation(response.confirmed)]
    /\ status' = "running"
    /\ cursor' = 1
    /\ runs' = runs + 1
    /\ pc' = "pathA"
    /\ UNCHANGED <<prog, todo, calls, auto_approve, invocation_id, orders, log,
                   events, approval_info, blog_cursor, state, blog_error>>

\* PATH A: run_async again with the decision and the same invocation_id.
Resume ==
    /\ pc = "resume"
    /\ LET response == create_approval_response(approval_info, auto_approve)
       IN  /\ tool_confirmation' =
                  [tool_confirmation EXCEPT ![response.id] = Confirmation(response.confirmed)]
           /\ sessions' =
                  [sessions EXCEPT ![approval_info.invocation_id].confirmations[response.id] =
                       Confirmation(response.confirmed)]
    /\ status' = "running"
    /\ runs' = runs + 1
    /\ pc' = "pathA"
    /\ UNCHANGED <<prog, todo, calls, auto_approve, invocation_id, cursor, orders,
                   log, events, approval_info, blog_cursor, state, blog_error>>

\* PATH B: print_agent_response(events); no second run.
PathB ==
    /\ pc = "pathB"
    /\ pc' = "done"
    /\ UNCHANGED <<prog, todo, calls, auto_approve, invocation_id, status, cursor,
                   tool_confirmation, orders, log, events, approval_info, runs,
                   sessions,
                   blog_cursor, state, blog_error>>

\* The workflow checks for an approval request again after the resumed run.
EndPathARecheck ==
    /\ pc = "pathA"
    /\ status \in {"suspended", "completed"}
    /\ pc' = "step1"
    /\ UNCHANGED <<prog, todo, calls, auto_approve, invocation_id, status, cursor,
                   tool_confirmation, orders, log, events, approval_info, runs,
                   sessions, blog_cursor, state, blog_error>>

\* The resumed run has returned.
EndPathA ==
    /\ pc = "pathA"
    /\ status \in {"suspended", "completed"}
    /\ pc' = "done"
    /\ UNCHANGED <<prog, todo, calls, auto_approve, invocation_id, status, cursor,
                   tool_confirmation, orders, log, events, approval_info, runs,
                   sessions,
                   blog_cursor, state, blog_error>>

\* run_image_workflow returns to its caller.
Return ==
    /\ pc = "done"
    /\ pc' = "idle"
    /\ UNCHANGED <<prog, todo, calls, auto_approve, invocation_id, status, cursor,
                   tool_confirmation, orders, log, events, approval_info, runs,
                   sessions,
                   blog_cursor, state, blog_error>>

-----------------------------------------------------------------------------
(* BlogPipeline *)

SubAgent(name, reads, key) == [name |-> name, reads |-> reads, output_key |-> key]

outline_agent == SubAgent("OutlineAgent", "", "blog_outline")
writer_agent == SubAgent("WriterAgent", "blog_outline", "blog_draft")
editor_agent == SubAgent("EditorAgent", "blog_draft", "final_blog")

root_agent_swapped == <<outline_agent, editor_agent, writer_agent>>

root_agent == <<outline_agent, writer_agent, editor_agent>>

InState(key) == \E i \in 1..Len(state) : state[i] = key

\* The next sub-agent runs: its instruction's placeholder is filled from the
\* session state and its result is stored under its output_key. A placeholder
\* with no value in the state ends the pipeline with an error.
RunSubAgent ==
    /\ prog = "blog"
    /\ ~blog_error
    /\ blog_cursor < Len(root_agent)
    /\ LET agent == root_agent[blog_cursor + 1]
       IN  IF agent.reads = "" \/ InState(agent.reads)
           THEN /\ state' = Append(state, agent.output_key)
                /\ blog_cursor' = blog_cursor + 1
                /\ UNCHANGED blog_error
           ELSE /\ blog_error' = TRUE
                /\ UNCHANGED <<state, blog_cursor>>
    /\ UNCHANGED <<prog, image_vars>>

-----------------------------------------------------------------------------

Init ==
    /\ blog_cursor = 0
    /\ state = <<>>
    /\ blog_error = FALSE
    /\ \/ prog = "image" /\ ImageInit
       \/ /\ prog = "blog"
          /\ todo = <<>>
          /\ pc = "idle"
          /\ calls = <<>>
          /\ auto_approve = TRUE
          /\ invocation_id = 0
          /\ status = "none"
          /\ cursor = 1
          /\ tool_confirmation = <<>>
          /\ orders = <<>>
          /\ log = <<>>
          /\ events = <<>>
          /\ approval_info = None
          /\ runs = 0
          /\ sessions = <<>>

Next ==
    \/ Call
    \/ Start
    \/ Advance
    \/ Check
    \/ Resume
    \/ PathB
    \/ EndPathA
    \/ Return
    \/ RunSubAgent

Spec == Init /\ [][Next]_vars

-----------------------------------------------------------------------------
(* Vocabulary of the properties *)

CallIds == 1..Len(calls)

\* Positions of the log that hold a confirmation request for tool call i.
Requests(i) ==
    {j \in 1..Len(log) : log[j].name = "adk_request_confirmation" /\ log[j].id = i}

\* Positions of the log that hold a result of tool call i.
Responses(i) ==
    {j \in 1..Len(log) : log[j].name = "place_image_generation_order" /\ log[j].id = i}

\* Tool calls that asked for confirmation so far (gates hit).
GatesHit == {i \in CallIds : Requests(i) # {}}

\* The ticket of call i is outstanding: requested and not yet answered.
Outstanding(i) == Requests(i) # {} /\ ~tool_confirmation[i].present

\* How often the order of tool call i was placed.
Placed(i) == Cardinality({j \in 1..Len(orders) : orders[j].call = i})

\* A request of more than 1 unit is a large order.
OverOne(n) == n > 1

\* Later tool calls of the query that are large orders.
LaterLarge(g) == {k \in CallIds : k > g /\ OverOne(calls[k])}

Least(S) == CHOOSE x \in S : \A y \in S : x <= y

\* The workflow has returned after a resumed run of the current invocation.
ResumedDone == pc = "done" /\ runs = 2

-----------------------------------------------------------------------------
(* Properties *)

C3_Original ==
    (ResumedDone /\ auto_approve) =>
        LET g == approval_info.approval_id
        IN  /\ Placed(g) = 1
            /\ cursor > g
            /\ status = "completed"

\* C3 (amended): after a resume with decision = true the gate has returned
\* approved for the paused call, its order was placed exactly once, by the human
\* path, for the num_images carried by the confirmation request, and the
\* invocation is past that call; it is COMPLETED when no later call of the query
\* is a large order, and otherwise suspended at the next large order, which is
\* not placed.
C3_ApprovedResume ==
    (ResumedDone /\ auto_approve) =>
        LET g == approval_info.approval_id
        IN  /\ \E j \in Responses(g) : log[j].status = "approved"
            /\ Placed(g) = 1
            /\ \A j \in 1..Len(orders) : orders[j].call = g =>
                   /\ orders[j].order_id = "HUMAN"
                   /\ \A r \in Requests(g) : orders[j].num_images = log[r].payload
            /\ cursor > g
            /\ IF LaterLarge(g) = {}
               THEN status = "completed"
               ELSE /\ status = "suspended"
                    /\ cursor = Least(LaterLarge(g))
                    /\ Placed(cursor) = 0

\* Demo 2 of main: 10 images, approved.
C3_Witness ==
    /\ ResumedDone /\ auto_approve
    /\ calls = <<10>>
    /\ status = "completed"
    /\ orders = <<[call |-> 1, num_images |-> 10, order_id |-> "HUMAN"]>>

\* C4 as stated: after a resume with decision = false the gate has returned
\* rejected, the order was never placed, and the invocation is COMPLETED when
\* the workflow returns.
C4_Original ==
    (ResumedDone /\ ~auto_approve) =>
        LET g == approval_info.approval_id
        IN  /\ \E j \in Responses(g) : log[j].status = "rejected"
            /\ Placed(g) = 0
            /\ status = "completed"

\* C4 (amended): after a resume with decision = false the gate has returned
\* rejected for the paused call and that order was placed at no point of the
\* invocation; the invocation is COMPLETED when no later call of the query is a
\* large order, and otherwise suspended at the next large order.
C4_RejectedResume ==
    (ResumedDone /\ ~auto_approve) =>
        LET g == approval_info.approval_id
        IN  /\ \E j \in Responses(g) : log[j].status = "rejected"
            /\ \A j \in Responses(g) : log[j].status \in {"pending", "rejected"}
            /\ Placed(g) = 0
            /\ cursor > g
            /\ IF LaterLarge(g) = {}
               THEN status = "completed"
               ELSE /\ status = "suspended"
                    /\ cursor = Least(LaterLarge(g))

\* Demo 3 of main: 8 images, rejected.
C4_Witness ==
    /\ ResumedDone /\ ~auto_approve
    /\ calls = <<8>>
    /\ status = "completed"
    /\ orders = <<>>

\* What the first k sub-agents of the documented pipeline order publish.
Published(k) == SubSeq(<<"blog_outline", "blog_draft", "final_blog">>, 1, k)

\* C5: an invocation in which no tool call asked for confirmation is never
\* suspended and is run once; when the workflow returns it is COMPLETED, every
\* call's order is placed, and the results appear in the log in call order. In
\* the blog pipeline every sub-agent finds the output it reads and the outputs
\* are published in pipeline order.
C5_NoGateCompletes ==
    /\ (status # "none" /\ GatesHit = {}) =>
           /\ status # "suspended"
           /\ runs = 1
           /\ pc \notin {"resume", "pathA"}
           /\ \A j \in 1..Len(orders) : orders[j].call = j
           /\ \A j \in 1..Len(log) :
                  log[j].name = "place_image_generation_order" => log[j].id = j
           /\ pc = "done" =>
                  /\ status = "completed"
                  /\ Len(orders) = Len(calls)
                  /\ Len(log) = Len(calls) + 1
                  /\ log[Len(log)].name = "text"
    /\ ~blog_error
    /\ state = Published(blog_cursor)

C5_Witness ==
    /\ pc = "done"
    /\ GatesHit = {}
    /\ status = "completed"
    /\ Len(log) = 3
    /\ log[1].id = 1 /\ log[2].id = 2 /\ log[3].name = "text"

InDemo1 == invocation_id = 1 /\ todo = Tail(Demos) /\ calls = Demos[1].query

\* C7: in Demo 1 of main the order for 3 images is auto-approved, no
\* confirmation request is emitted and the workflow takes PATH B.
C7_Demo1AutoApproved ==
    (InDemo1 /\ pc = "done") =>
        /\ orders = <<[call |-> 1, num_images |-> 3, order_id |-> "AUTO"]>>
        /\ GatesHit = {}
        /\ runs = 1

\* C8: a call that returned "pending" is followed at once by a confirmation
\* request carrying its num_images, and its order is not placed before a
\* decision is in; while the ticket of a call is outstanding, exactly one
\* confirmation request carrying its num_images is in the log, its order is
\* not placed, the invocation is suspended at that call
\* and no later call has been evaluated; a suspended invocation changes only by
\* the resume of run_image_workflow.
C8_PendingSuspends ==
    /\ [](\A j \in 1..Len(log) : log[j].status = "pending" =>
             /\ j < Len(log)
             /\ log[j + 1] = ConfirmationRequest(invocation_id, log[j].id, calls[log[j].id])
             /\ Placed(log[j].id) = 0 \/ tool_confirmation[log[j].id].present)
    /\ [](\A i \in CallIds : Outstanding(i) =>
             /\ Cardinality(Requests(i)) = 1
             /\ \A r \in Requests(i) :
                    /\ log[r].payload = calls[i]
                    /\ r = Len(log)
                    /\ log[r - 1].name = "place_image_generation_order"
                    /\ log[r - 1].id = i
                    /\ log[r - 1].status = "pending"
             /\ Placed(i) = 0
             /\ status = "suspended"
             /\ cursor = i
             /\ \A k \in CallIds : k > i => Responses(k) = {} /\ Placed(k) = 0)
    /\ [][(status = "suspended" /\ invocation_id' = invocation_id) =>
             /\ log' = log
             /\ orders' = orders
             /\ cursor' = cursor
             /\ status' # status => pc = "resume" /\ status' = "running"]_vars

C8_Witness ==
    /\ pc = "step1"
    /\ status = "suspended"
    /\ \E i \in CallIds : Outstanding(i) /\ i = 2

\* C9: within one invocation the status only moves running -> suspended,
\* suspended -> running (by the resume), running -> completed, and running or
\* suspended -> failed; completed and failed never change; the cursor never
\* decreases.
C9_StatusMonotone ==
    [][invocation_id' = invocation_id =>
          /\ cursor' >= cursor
          /\ \/ status' = status
             \/ status = "none" /\ status' = "running"
             \/ status = "running" /\ status' \in {"suspended", "completed", "failed"}
             \/ status = "suspended" /\ status' = "failed"
             \/ status = "suspended" /\ status' = "running" /\ pc = "resume"]_vars

C9_Witness ==
    /\ ResumedDone
    /\ status = "completed"
    /\ cursor = 3

\* C11: the resume re-enters the step at which the invocation suspended: it
\* leaves the cursor at the paused call, and the first event of the resumed run
\* is the result of that call for the num_images its confirmation request
\* carried. No call is evaluated again once it has a final result (a gated call
\* is evaluated twice, every other call once, and no order is placed twice), and
\* the resumed run goes on until the query is finished or the next call asks for
\* confirmation.
C11_ResumeReenters ==
    /\ [][(pc = "resume" /\ pc' = "pathA") =>
             /\ cursor' = cursor
             /\ cursor = approval_info.approval_id
             /\ calls' = calls
             /\ log' = log
             /\ orders' = orders]_vars
    /\ [](\A i \in CallIds :
             /\ Cardinality(Responses(i)) <= (IF i \in GatesHit THEN 2 ELSE 1)
             /\ Placed(i) <= 1)
    /\ []((runs = 2 /\ Len(log) > Len(events)) =>
             LET g == approval_info.approval_id
                 first == log[Len(events) + 1]
             IN  /\ first.name = "place_image_generation_order"
                 /\ first.id = g
                 /\ first.status \in {"approved", "rejected"}
                 /\ \A r \in Requests(g) : first.payload = log[r].payload)
    /\ [](ResumedDone =>
             \/ status = "completed" /\ cursor = Len(calls) + 1
             \/ /\ status = "suspended"
                /\ cursor > approval_info.approval_id
                /\ Outstanding(cursor))

C11_Witness ==
    /\ ResumedDone
    /\ calls = <<1, 2>>
    /\ approval_info.approval_id = 2
    /\ Cardinality(Responses(1)) = 1
    /\ Cardinality(Responses(2)) = 2
    /\ Placed(1) = 1
    /\ status = "completed"

\* The tool calls of the current query that are large orders.
LargeCalls == {i \in CallIds : OverOne(calls[i])}

RunReturned == pc \in {"resume", "pathB", "done"}

\* C14: when a run has returned to run_image_workflow the invocation is
\* completed, with the agent's final text as its last event, or suspended. A
\* suspended invocation holds exactly one outstanding ticket, that of the call
\* it is at, whose confirmation request carries the call's num_images; an
\* invocation that is not suspended holds none. After the first run
\* check_for_approval finds a request exactly when the invocation is suspended,
\* and what it returns names that ticket and the invocation.
C14_ReturnsTerminalOrSuspended ==
    /\ RunReturned => status \in {"completed", "suspended"}
    /\ status = "completed" => log[Len(log)] = FinalText(invocation_id)
    /\ status = "suspended" =>
           /\ {i \in CallIds : Outstanding(i)} = {cursor}
           /\ \A r \in Requests(cursor) : log[r].payload = calls[cursor]
    /\ status # "suspended" => {i \in CallIds : Outstanding(i)} = {}
    /\ pc \in {"resume", "pathB"} =>
           /\ approval_info.found <=> status = "suspended"
           /\ approval_info.found =>
                  /\ approval_info.approval_id = cursor
                  /\ approval_info.invocation_id = invocation_id
                  /\ \E j \in 1..Len(events) :
                         events[j] = ConfirmationRequest(invocation_id, cursor, calls[cursor])

C14_Witness ==
    /\ pc = "resume"
    /\ status = "suspended"
    /\ calls = <<1, 3>>
    /\ approval_info = [found |-> TRUE, approval_id |-> 2, invocation_id |-> 1]
    /\ Outstanding(2)

\* Positions of the confirmation requests among the events STEP 1 collected.
CollectedRequests ==
    {j \in 1..Len(events) : events[j].name = "adk_request_confirmation"}

\* C15: run_image_workflow calls the runner at most twice. When it returns, it
\* has made the second call exactly when the events of the first run hold a
\* confirmation request; the second call carries the invocation_id and the id
\* of the first such request in event order, and its decision reaches that
\* ticket. The events of the second run are not collected or inspected: events
\* and approval_info stay as they were, also when the resumed run suspends
\* again at a new confirmation request.
C15_AtMostTwoRuns ==
    /\ [](runs <= 2)
    /\ [](pc = "done" => (runs = 2 <=> CollectedRequests # {}))
    /\ [](runs = 2 =>
             LET first == events[Least(CollectedRequests)]
             IN  /\ CollectedRequests # {}
                 /\ approval_info = [found |-> TRUE, approval_id |-> first.id,
                                     invocation_id |-> first.invocation_id]
                 /\ tool_confirmation[first.id] = Confirmation(auto_approve)
                 /\ Len(events) <= Len(log)
                 /\ events = SubSeq(log, 1, Len(events))
                 /\ \A j \in 1..Len(events) :
                        events[j].name = "place_image_generation_order" =>
                            events[j].status \in {"pending", "approved"}
                                /\ (events[j].status = "approved" => events[j].id < first.id))
    /\ [][pc = "pathA" => (events' = events /\ approval_info' = approval_info)]_vars

\* The resumed run suspended again; the workflow returned after two runs.
C15_Witness ==
    /\ pc = "done"
    /\ runs = 2
    /\ status = "suspended"
    /\ Cardinality(GatesHit) = 2
    /\ Cardinality(CollectedRequests) = 1
    /\ approval_info.approval_id = 1

====
